---- MODULE Spec2Model ----
(***************************************************************************)
(* Model of the cache-aware playlist builder, abovevtt_playlist_db.py:     *)
(* create_playlist and the helpers it calls.  Strings are sequences of     *)
(* character codes, so that the path and tag operations (relpath, dirname, *)
(* split, strip, lower, join, sorted) are computed as the code computes    *)
(* them.                                                                   *)
(***************************************************************************)
EXTENDS Integers, Sequences, FiniteSets, TLC

(* ---------------- character codes used by the code ---------------- *)
\* os.sep on a POSIX host, "/"
Sep == 47
\* "\\", replaced by "/" in the remote path
Backslash == 92
\* ",", separates the contributors of one artist value
Comma == 44
\* " ", the whitespace str.strip() removes
Space == 32
\* ".", where os.path.splitext cuts the extension
Dot == 46
\* "|", joins the tags of a row
Pipe == 124

(* ---------------- bounds of the model ---------------- *)
\* runs of create_playlist in one behaviour
MaxRuns == 2
\* links in one answer of sharing_list_shared_links
MaxLinks == 2
\* repeated paths glob may return on top of the distinct ones
MaxDupes == 1

(* ---------------- strings ---------------- *)
Range(s) == {s[i] : i \in 1..Len(s)}

\* str.lower() on one character
LowerChar(c) == IF c >= 65 /\ c <= 90 THEN c + 32 ELSE c

\* str.lower()
Lower(s) == [i \in 1..Len(s) |-> LowerChar(s[i])]

\* the order Python's sorted() puts two different strings in: code point by
\* code point, a proper prefix first
RECURSIVE LexLess(_, _)
LexLess(a, b) ==
    IF b = <<>> THEN FALSE
    ELSE IF a = <<>> THEN TRUE
    ELSE IF Head(a) # Head(b) THEN Head(a) < Head(b)
    ELSE LexLess(Tail(a), Tail(b))

\* index of the last c in s, 0 when there is none (str.rfind + 1)
LastIndexOf(s, c) ==
    LET hits == {i \in 1..Len(s) : s[i] = c}
    IN IF hits = {} THEN 0 ELSE CHOOSE i \in hits : \A j \in hits : j <= i

\* str.split(c): the pieces between the occurrences of c, empty pieces kept
RECURSIVE SplitOn(_, _)
SplitOn(s, c) ==
    LET hits == {i \in 1..Len(s) : s[i] = c}
    IN IF hits = {} THEN <<s>>
       ELSE LET i == CHOOSE k \in hits : \A j \in hits : k <= j
            IN <<SubSeq(s, 1, i - 1)>> \o SplitOn(SubSeq(s, i + 1, Len(s)), c)

\* str.strip(): leading and trailing whitespace removed
RECURSIVE Strip(_)
Strip(s) ==
    IF s = <<>> THEN s
    ELSE IF Head(s) = Space THEN Strip(Tail(s))
    ELSE IF s[Len(s)] = Space THEN Strip(SubSeq(s, 1, Len(s) - 1))
    ELSE s

\* sep.join(parts)
RECURSIVE JoinWith(_, _)
JoinWith(parts, c) ==
    IF parts = <<>> THEN <<>>
    ELSE IF Len(parts) = 1 THEN parts[1]
    ELSE parts[1] \o <<c>> \o JoinWith(Tail(parts), c)

\* str.replace(a, b) for single characters
Replace(s, a, b) == [i \in 1..Len(s) |-> IF s[i] = a THEN b ELSE s[i]]

\* concatenation of a sequence of sequences
RECURSIVE Flatten(_)
Flatten(ss) == IF ss = <<>> THEN <<>> ELSE Head(ss) \o Flatten(Tail(ss))

\* the elements of s that satisfy "truthy" (a non-empty string), in order
RECURSIVE NonEmpty(_)
NonEmpty(s) ==
    IF s = <<>> THEN <<>>
    ELSE IF Head(s) = <<>> THEN NonEmpty(Tail(s))
    ELSE <<Head(s)>> \o NonEmpty(Tail(s))

\* list(set(xs)): the distinct elements, in an order the language leaves open
ListOfSet(S) ==
    {p \in [1..Cardinality(S) -> S] : Range(p) = S}

(* ---------------- os.path ---------------- *)
\* os.path.join(a, b) for two components
PathJoin(a, b) ==
    IF b # <<>> /\ Head(b) = Sep THEN b
    ELSE IF a = <<>> \/ a[Len(a)] = Sep THEN a \o b
    ELSE a \o <<Sep>> \o b

\* os.path.relpath(p, root) for a path below root
RelPath(p, root) == SubSeq(p, Len(root) + 2, Len(p))

\* os.path.dirname(p) of a relative path
DirName(p) ==
    LET i == LastIndexOf(p, Sep)
    IN IF i = 0 THEN <<>> ELSE SubSeq(p, 1, i - 1)

\* os.path.basename(p)
BaseName(p) == SubSeq(p, LastIndexOf(p, Sep) + 1, Len(p))

\* os.path.splitext(p)[0]
SplitExtRoot(p) ==
    LET i == LastIndexOf(p, Dot)
    IN IF i <= 1 THEN p ELSE SubSeq(p, 1, i - 1)

(* ---------------- configuration (environment variables) ---------------- *)
\* LOCAL_ROOT_FOLDER = "/m"
LOCAL_ROOT_FOLDER == <<47, 109>>

\* DROPBOX_ROOT_FOLDER = "/D"
DROPBOX_ROOT_FOLDER == <<47, 68>>

(* ---------------- the local library ---------------- *)
\* "/m/a.mp3", a file placed directly in the root
FileA == <<47, 109, 47, 97, 46, 109, 112, 51>>

\* "/m/R/s.mp3"
FileS == <<47, 109, 47, 82, 47, 115, 46, 109, 112, 51>>

\* "/m/R/b/T.mp3"
FileT == <<47, 109, 47, 82, 47, 98, 47, 84, 46, 109, 112, 51>>

\* the paths glob's pattern <root>/**/*.mp3 can match
FileUniverse == {FileA, FileS, FileT}

\* what EasyID3(path) can find in a file: no ID3 header at all (readable =
\* FALSE, EasyID3 raises), or a tag dictionary holding the listed keys
Audio(readable, keys, album, artist) ==
    [readable |-> readable, keys |-> keys, album |-> album, artist |-> artist]

\* the tag contents each file of the library may carry:
\*   a.mp3     album "G", artist "" | no ID3 header
\*   R/s.mp3   album "R", artist "A, R" | no album key
\*   R/b/T.mp3 album "b", artist "R"
AudioChoices(mp3_file) ==
    IF mp3_file = FileA THEN
        { Audio(TRUE, {"album", "artist"}, << <<71>> >>, << <<>> >>),
          Audio(FALSE, {}, <<>>, <<>>) }
    ELSE IF mp3_file = FileS THEN
        { Audio(TRUE, {"album", "artist"}, << <<82>> >>, << <<65, 44, 32, 82>> >>),
          Audio(TRUE, {"artist"}, <<>>, << <<65>> >>) }
    ELSE
        { Audio(TRUE, {"album", "artist"}, << <<98>> >>, << <<82>> >>) }

(* ---------------- the remote service ---------------- *)
\* urls of links to files: "u1", "u2"
FileUrls == { <<117, 49>>, <<117, 50>> }

\* url of a link to a parent folder: "uf"
FolderUrl == <<117, 102>>

SharedLink(path_lower, url) == [path_lower |-> path_lower, url |-> url]

\* None
NoLink == SharedLink(<<>>, <<>>)

\* the links sharing_list_shared_links(path=p) can list: links to the file
\* itself and a link to its parent folder, path_lower always lower-cased
LinkUniverse(p) ==
    {SharedLink(Lower(p), u) : u \in FileUrls}
        \cup {SharedLink(Lower(DirName(p)), FolderUrl)}

\* the answers of dbx.sharing_list_shared_links(path=p).links
ListAnswers(p) ==
    UNION {[1..n -> LinkUniverse(p)] : n \in 0..MaxLinks}

\* the answers of dbx.sharing_create_shared_link_with_settings(p)
CreateAnswers(p) == {SharedLink(Lower(p), u) : u \in FileUrls}

(* ---------------- get_existing_shared_link ---------------- *)
\* a comparison that forgets to lower-case the requested path
LinkMatchesExactCase(link, mp3_filepath) == link.path_lower = mp3_filepath

\* link.path_lower == mp3_filepath.lower()
LinkMatches(link, mp3_filepath) == link.path_lower = Lower(mp3_filepath)

\* the loop over links: the first link that matches, None when none does
get_existing_shared_link(mp3_filepath, links) ==
    LET hits == {i \in 1..Len(links) : LinkMatches(links[i], mp3_filepath)}
    IN IF hits = {} THEN NoLink
       ELSE links[CHOOSE i \in hits : \A j \in hits : i <= j]

\* what get_existing_shared_link(p) can return, over the answers of the
\* remote listing
ListOutcomes(p) == {get_existing_shared_link(p, links) : links \in ListAnswers(p)}

(* ---------------- get_mp3_metadata ---------------- *)
\* EasyID3() raises on a file without ID3 header; iterating audio.get(key)
\* raises when the key is absent (get returns None)
MetadataRaises(audio) ==
    \/ ~audio.readable
    \/ "album" \notin audio.keys
    \/ "artist" \notin audio.keys

\* [a.strip() for a in artist.split(",")] for every artist value
ArtistTags(artists) ==
    Flatten([i \in 1..Len(artists) |->
                LET parts == SplitOn(artists[i], Comma)
                IN [k \in 1..Len(parts) |-> Strip(parts[k])]])

\* the tags list get_mp3_metadata returns when it does not raise
get_mp3_metadata(audio) ==
    NonEmpty(audio.album) \o ArtistTags(NonEmpty(audio.artist))

(* ---------------- create_playlist: per-file computations ---------------- *)
\* os.path.dirname(relative_path).split(os.sep)
FolderStructure(mp3_file) ==
    SplitOn(DirName(RelPath(mp3_file, LOCAL_ROOT_FOLDER)), Sep)

\* tags = folder_structure; tags.extend(get_mp3_metadata(mp3_file))
TagList(mp3_file, audio) == FolderStructure(mp3_file) \o get_mp3_metadata(audio)

\* "|".join(list(set(tags))): one string per order of the distinct tags
RowTags(mp3_file, audio) ==
    {JoinWith(p, Pipe) : p \in ListOfSet(Range(TagList(mp3_file, audio)))}

\* os.path.splitext(os.path.basename(mp3_file))[0]
TrackName(mp3_file) == SplitExtRoot(BaseName(mp3_file))

\* os.path.join(DROPBOX_ROOT_FOLDER, relative_path).replace("\\", "/")
DropboxFilePath(mp3_file) ==
    Replace(PathJoin(DROPBOX_ROOT_FOLDER, RelPath(mp3_file, LOCAL_ROOT_FOLDER)),
            Backslash, Sep)

(* ---------------- create_playlist: the cache and the scan ---------------- *)
\* playlist_directory = {}
EmptyDirectory == [k \in {} |-> <<>>]

\* ascending list of the strings of a set
RECURSIVE SortedList(_)
SortedList(S) ==
    IF S = {} THEN <<>>
    ELSE LET m == CHOOSE x \in S : \A y \in S \ {x} : LexLess(x, y)
         IN <<m>> \o SortedList(S \ {m})

\* json.dump(d, sort_keys=True): the members of the object, ascending by key
JsonDump(d) ==
    LET keys == SortedList(DOMAIN d)
    IN [i \in 1..Len(keys) |-> <<keys[i], d[keys[i]]>>]

\* json.load: the mapping the members of the object describe
JsonLoad(text) ==
    [k \in {text[i][1] : i \in 1..Len(text)} |->
        LET i == CHOOSE j \in 1..Len(text) : text[j][1] = k IN text[i][2]]

\* a load that ignores the file and starts from an empty directory
LoadNothing(cache) == EmptyDirectory

\* playlist_directory = {}; if os.path.exists(...): playlist_directory = json.load(f)
LoadDirectory(cache) ==
    IF cache.exists THEN JsonLoad(cache.text) ELSE EmptyDirectory

\* glob.glob(<root>/**/*.mp3, recursive=True): every matching file, in any
\* order, a path possibly more than once
GlobAnswers(fs) ==
    {g \in UNION {[1..n -> fs] : n \in Cardinality(fs)..(Cardinality(fs) + MaxDupes)} :
        Range(g) = fs}

\* a scan that keeps glob's list as it came
ScanAsGlobbed(all_mp3_files) == all_mp3_files

\* mp3_files = sorted(list(set(all_mp3_files)))
ScanResult(all_mp3_files) == SortedList(Range(all_mp3_files))

\* a loop that stops one file early
HasNextButLast(i, fs) == i < Len(fs)

\* for mp3_file in mp3_files: a file is left to visit
HasNext(i, fs) == i <= Len(fs)

\* a lookup that never finds the key
NeverCached(mp3_file, directory) == FALSE

\* if mp3_file in playlist_directory
IsCached(mp3_file, directory) == mp3_file \in DOMAIN directory

\* an assignment that is lost
StoreNothing(directory, mp3_file, entry) == directory

\* playlist_directory[mp3_file] = [name, src, tags]
StoreEntry(directory, mp3_file, entry) ==
    [k \in DOMAIN directory \cup {mp3_file} |->
        IF k = mp3_file THEN entry ELSE directory[k]]

\* csvwriter.writerow(["name", "src", "tags"])
CsvHeader == << <<110, 97, 109, 101>>, <<115, 114, 99>>, <<116, 97, 103, 115>> >>

\* the rows csv.writer puts in the file: the header, then the playlist
CsvRows(rows) == <<CsvHeader>> \o rows

(* ---------------- the order of the steps of one iteration ---------------- *)
Event(op, mp3_file) == [op |-> op, file |-> mp3_file]

\* the steps of the body of the loop for one file, in program order:
\* the lookup in playlist_directory, then (on a miss) the metadata read,
\* the listing of the existing links and the creation of a link
IterationSteps == <<"cache_lookup", "read_metadata", "list_links", "create_link">>

\* an iteration that reads the metadata before it looks in the directory
StepsMetadataFirst(mp3_file, n) ==
    LET order == <<"read_metadata", "cache_lookup", "list_links", "create_link">>
    IN [i \in 1..n |-> Event(order[i], mp3_file)]

\* the first n steps of the iteration for mp3_file
Steps(mp3_file, n) == [i \in 1..n |-> Event(IterationSteps[i], mp3_file)]

(* ---------------- state ---------------- *)
VARIABLES
    files,              \* the mp3 files below LOCAL_ROOT_FOLDER
    cache_file,         \* playlist_directory.json: [exists, text]
    playlist_file,      \* playlist.csv: [exists, text]
    run,                \* number of the run of create_playlist
    pc,                 \* where the run is: start, scan, loop, write_cache, done, aborted
    playlist_directory, \* the directory in memory
    mp3_files,          \* the scanned files
    idx,                \* position of the loop in mp3_files
    playlist,           \* the rows collected
    row_files,          \* the file each row of playlist was made for
    trace,              \* the file and remote operations of this run, in order
    loaded,             \* the directory as loaded at the start of this run
    cache_at_start,     \* playlist_directory.json as it was when this run started
    abort_cause,        \* the exception that ended the run, "" when none
    prev,               \* the previous run: how it ended, on which files, its playlist.csv
    call                \* one call of get_or_create_shared_link, step by step

vars == <<files, cache_file, playlist_file, run, pc, playlist_directory, mp3_files,
          idx, playlist, row_files, trace, loaded, cache_at_start, abort_cause,
          prev, call>>

NoFile == [exists |-> FALSE, text |-> <<>>]

NoCall == [stage |-> "idle", path |-> <<>>, links |-> <<>>, requests |-> <<>>,
           result |-> NoLink]

Init ==
    /\ files \in SUBSET FileUniverse
    /\ cache_file = NoFile
    /\ playlist_file = NoFile
    /\ run = 1
    /\ pc = "start"
    /\ playlist_directory = EmptyDirectory
    /\ mp3_files = <<>>
    /\ idx = 1
    /\ playlist = <<>>
    /\ row_files = <<>>
    /\ trace = <<>>
    /\ loaded = EmptyDirectory
    /\ cache_at_start = NoFile
    /\ abort_cause = ""
    /\ prev = [status |-> "none", files |-> {}, playlist_file |-> NoFile]
    /\ call = NoCall

environment == <<files, run, prev, cache_at_start, call>>

(* ---------------- create_playlist ---------------- *)
\* lines 127-135: the directory is loaded when the file exists
LoadCache ==
    /\ pc = "start"
    /\ playlist_directory' = LoadDirectory(cache_file)
    /\ loaded' = playlist_directory'
    /\ trace' = IF cache_file.exists
                THEN Append(trace, Event("read_cache", <<>>)) ELSE trace
    /\ pc' = "scan"
    /\ UNCHANGED <<environment, cache_file, playlist_file, mp3_files, idx, playlist,
                   row_files, abort_cause>>

\* lines 137-138: glob, then sorted(list(set(...)))
ScanFiles ==
    /\ pc = "scan"
    /\ \E all_mp3_files \in GlobAnswers(files) :
           mp3_files' = ScanResult(all_mp3_files)
    /\ idx' = 1
    /\ pc' = "loop"
    /\ UNCHANGED <<environment, cache_file, playlist_file, playlist_directory,
                   playlist, row_files, trace, loaded, abort_cause>>

\* lines 141-142, 157: the file is in the directory
UseCached ==
    /\ pc = "loop"
    /\ HasNext(idx, mp3_files)
    /\ LET mp3_file == mp3_files[idx]
       IN /\ IsCached(mp3_file, playlist_directory)
          /\ playlist' = Append(playlist, playlist_directory[mp3_file])
          /\ row_files' = Append(row_files, mp3_file)
          /\ trace' = trace \o Steps(mp3_file, 1)
    /\ idx' = idx + 1
    /\ UNCHANGED <<environment, cache_file, playlist_file, pc, playlist_directory,
                   mp3_files, loaded, abort_cause>>

\* the state after lines 143-157 when nothing raised: link is what
\* get_or_create_shared_link returned, n the number of steps taken
Resolved(mp3_file, tags, link, n) ==
    LET entry == <<TrackName(mp3_file), link.url, tags>>
    IN /\ playlist_directory' = StoreEntry(playlist_directory, mp3_file, entry)
       /\ playlist' = Append(playlist, entry)
       /\ row_files' = Append(row_files, mp3_file)
       /\ trace' = trace \o Steps(mp3_file, n)
       /\ idx' = idx + 1
       /\ UNCHANGED <<environment, cache_file, playlist_file, pc, mp3_files, loaded,
                      abort_cause>>

\* lines 143-157, get_or_create_shared_link returns at line 105: a listed
\* link matches
ResolveExisting ==
    /\ pc = "loop"
    /\ HasNext(idx, mp3_files)
    /\ LET mp3_file == mp3_files[idx]
       IN /\ ~IsCached(mp3_file, playlist_directory)
          /\ \E audio \in AudioChoices(mp3_file) :
                /\ ~MetadataRaises(audio)
                /\ \E tags \in RowTags(mp3_file, audio) :
                   \E existing_link \in ListOutcomes(DropboxFilePath(mp3_file)) \ {NoLink} :
                       Resolved(mp3_file, tags, existing_link, 3)

\* lines 143-157, get_or_create_shared_link returns at line 109: no listed
\* link matches and a link is created
ResolveCreated ==
    /\ pc = "loop"
    /\ HasNext(idx, mp3_files)
    /\ LET mp3_file == mp3_files[idx]
       IN /\ ~IsCached(mp3_file, playlist_directory)
          /\ NoLink \in ListOutcomes(DropboxFilePath(mp3_file))
          /\ \E audio \in AudioChoices(mp3_file) :
                /\ ~MetadataRaises(audio)
                /\ \E tags \in RowTags(mp3_file, audio) :
                   \E shared_link \in CreateAnswers(DropboxFilePath(mp3_file)) :
                       Resolved(mp3_file, tags, shared_link, 4)

\* an exception leaves create_playlist and main: the run is over, nothing
\* after the raising statement is executed
Raised(cause, mp3_file, n) ==
    /\ pc' = "aborted"
    /\ abort_cause' = cause
    /\ trace' = trace \o Steps(mp3_file, n)
    /\ UNCHANGED <<environment, cache_file, playlist_file, playlist_directory,
                   mp3_files, idx, playlist, row_files, loaded>>

\* line 147: get_mp3_metadata raises (no ID3 header, or a key is absent)
MetadataFails ==
    /\ pc = "loop"
    /\ HasNext(idx, mp3_files)
    /\ LET mp3_file == mp3_files[idx]
       IN /\ ~IsCached(mp3_file, playlist_directory)
          /\ \E audio \in AudioChoices(mp3_file) : MetadataRaises(audio)
          /\ Raised("metadata", mp3_file, 2)

\* line 154 -> line 61: sharing_list_shared_links raises
ListFails ==
    /\ pc = "loop"
    /\ HasNext(idx, mp3_files)
    /\ LET mp3_file == mp3_files[idx]
       IN /\ ~IsCached(mp3_file, playlist_directory)
          /\ \E audio \in AudioChoices(mp3_file) : ~MetadataRaises(audio)
          /\ Raised("list_links", mp3_file, 3)

\* line 154 -> line 107: sharing_create_shared_link_with_settings raises
CreateFails ==
    /\ pc = "loop"
    /\ HasNext(idx, mp3_files)
    /\ LET mp3_file == mp3_files[idx]
       IN /\ ~IsCached(mp3_file, playlist_directory)
          /\ \E audio \in AudioChoices(mp3_file) : ~MetadataRaises(audio)
          /\ NoLink \in ListOutcomes(DropboxFilePath(mp3_file))
          /\ Raised("create_link", mp3_file, 4)

\* lines 159-161: nothing to write
NoPlaylist ==
    /\ pc = "loop"
    /\ ~HasNext(idx, mp3_files)
    /\ playlist = <<>>
    /\ pc' = "done"
    /\ UNCHANGED <<environment, cache_file, playlist_file, playlist_directory,
                   mp3_files, idx, playlist, row_files, trace, loaded, abort_cause>>

\* lines 163-167: playlist.csv is written
WritePlaylist ==
    /\ pc = "loop"
    /\ ~HasNext(idx, mp3_files)
    /\ playlist # <<>>
    /\ playlist_file' = [exists |-> TRUE, text |-> CsvRows(playlist)]
    /\ trace' = Append(trace, Event("write_playlist", <<>>))
    /\ pc' = "write_cache"
    /\ UNCHANGED <<environment, cache_file, playlist_directory, mp3_files, idx,
                   playlist, row_files, loaded, abort_cause>>

\* lines 169-170: playlist_directory.json is written
WriteCache ==
    /\ pc = "write_cache"
    /\ cache_file' = [exists |-> TRUE, text |-> JsonDump(playlist_directory)]
    /\ trace' = Append(trace, Event("write_cache", <<>>))
    /\ pc' = "done"
    /\ UNCHANGED <<environment, playlist_file, playlist_directory, mp3_files, idx,
                   playlist, row_files, loaded, abort_cause>>

(* ---------------- between two runs ---------------- *)
\* The library changes while the script is not running: after StartRun has
\* noted how the previous run ended, and before the new run reads anything.
Finished == pc \in {"done", "aborted"}

program == <<cache_file, playlist_file, pc, playlist_directory, mp3_files, idx,
             playlist, row_files, trace, loaded, abort_cause>>

\* a file is added to the library
AddFile ==
    /\ pc = "start"
    /\ \E f \in FileUniverse \ files : files' = files \cup {f}
    /\ UNCHANGED <<program, run, prev, cache_at_start, call>>

\* a file is deleted from the library
DeleteFile ==
    /\ pc = "start"
    /\ \E f \in files : files' = files \ {f}
    /\ UNCHANGED <<program, run, prev, cache_at_start, call>>

\* a file is moved to another path of the library
MoveFile ==
    /\ pc = "start"
    /\ \E f \in files : \E g \in FileUniverse \ files :
           files' = (files \ {f}) \cup {g}
    /\ UNCHANGED <<program, run, prev, cache_at_start, call>>

\* the script is started again: main() -> create_playlist(), lines 127-129
StartRun ==
    /\ Finished
    /\ run < MaxRuns
    /\ run' = run + 1
    /\ prev' = [status |-> pc, files |-> Range(mp3_files),
                playlist_file |-> playlist_file]
    /\ cache_at_start' = cache_file
    /\ pc' = "start"
    /\ playlist_directory' = EmptyDirectory
    /\ mp3_files' = <<>>
    /\ idx' = 1
    /\ playlist' = <<>>
    /\ row_files' = <<>>
    /\ trace' = <<>>
    /\ loaded' = EmptyDirectory
    /\ abort_cause' = ""
    /\ UNCHANGED <<files, cache_file, playlist_file, call>>

Next ==
    \/ LoadCache
    \/ ScanFiles
    \/ UseCached
    \/ ResolveExisting
    \/ ResolveCreated
    \/ MetadataFails
    \/ ListFails
    \/ CreateFails
    \/ NoPlaylist
    \/ WritePlaylist
    \/ WriteCache
    \/ AddFile
    \/ DeleteFile
    \/ MoveFile
    \/ StartRun

Spec == Init /\ [][Next]_vars

(* ---------------- get_or_create_shared_link, step by step ---------------- *)
\* everything but the call
rest == <<files, cache_file, playlist_file, run, pc, playlist_directory, mp3_files,
          idx, playlist, row_files, trace, loaded, cache_at_start, abort_cause, prev>>

\* the library holds every file; no call is under way
InitLinks == Init /\ files = FileUniverse

\* line 154: get_or_create_shared_link(dropbox_file_path) is called for a file
BeginCall ==
    /\ call.stage = "idle"
    /\ \E mp3_file \in files :
           call' = [NoCall EXCEPT !.stage = "called", !.path = DropboxFilePath(mp3_file)]
    /\ UNCHANGED rest

\* line 61: sharing_list_shared_links answers
ListLinks ==
    /\ call.stage = "called"
    /\ \E links \in ListAnswers(call.path) :
           call' = [call EXCEPT !.stage = "listed", !.links = links,
                                !.requests = Append(@, "list")]
    /\ UNCHANGED rest

\* line 61: sharing_list_shared_links raises
ListRaises ==
    /\ call.stage = "called"
    /\ call' = [call EXCEPT !.stage = "raised", !.requests = Append(@, "list")]
    /\ UNCHANGED rest

\* lines 62-65, 103-105: a listed link matches and is returned
ReturnExisting ==
    /\ call.stage = "listed"
    /\ LET existing_link == get_existing_shared_link(call.path, call.links)
       IN /\ existing_link # NoLink
          /\ call' = [call EXCEPT !.stage = "returned", !.result = existing_link]
    /\ UNCHANGED rest

\* lines 67, 107-109: no listed link matches; a link is created and returned
CreateLink ==
    /\ call.stage = "listed"
    /\ get_existing_shared_link(call.path, call.links) = NoLink
    /\ \E shared_link \in CreateAnswers(call.path) :
           call' = [call EXCEPT !.stage = "returned", !.result = shared_link,
                                !.requests = Append(@, "create")]
    /\ UNCHANGED rest

\* line 107: sharing_create_shared_link_with_settings raises
CreateRaises ==
    /\ call.stage = "listed"
    /\ get_existing_shared_link(call.path, call.links) = NoLink
    /\ call' = [call EXCEPT !.stage = "raised", !.requests = Append(@, "create")]
    /\ UNCHANGED rest

\* the caller has the result (or the exception); the next call can start
EndCall ==
    /\ call.stage \in {"returned", "raised"}
    /\ call' = NoCall
    /\ UNCHANGED rest

NextLinks ==
    \/ BeginCall
    \/ ListLinks
    \/ ListRaises
    \/ ReturnExisting
    \/ CreateLink
    \/ CreateRaises
    \/ EndCall

SpecLinks == InitLinks /\ [][NextLinks]_vars

(* ======================= properties ======================= *)
RemoteOps == {"list_links", "create_link"}

\* the positions of the trace where op was done
Positions(op) == {k \in 1..Len(trace) : trace[k].op = op}

\* the keys of the members of a written directory file
KeysOf(cache) == {cache.text[i][1] : i \in 1..Len(cache.text)}

\* rows made from the loaded directory / made by resolving the file in this run
CachedRows == {i \in 1..Len(row_files) : row_files[i] \in DOMAIN loaded}

ResolvedRows == {i \in 1..Len(row_files) : row_files[i] \notin DOMAIN loaded}

\* C1: a scanned file whose path is a key of the directory loaded at the
\* start of the run gets the loaded entry as its row, and neither the
\* listing nor the creation of links is requested for it in that run.
C1_CachedFileMakesNoRemoteCall ==
    \A i \in CachedRows :
        /\ playlist[i] = loaded[row_files[i]]
        /\ \A k \in 1..Len(trace) :
               trace[k].file = row_files[i] => trace[k].op \notin RemoteOps

\* a second run that took one file from the directory and resolved another
C1_Witness ==
    /\ run = 2
    /\ CachedRows # {}
    /\ ResolvedRows # {}
    /\ Positions("list_links") # {}

\* C2: a run that completes on the file set of the previous, completed run,
\* with the directory file that run left, makes no remote call and leaves
\* playlist.csv with the content the previous run gave it; when there are
\* files it writes that content again.
C2_SecondRunIsIdempotent ==
    (pc = "done" /\ prev.status = "done" /\ prev.files = Range(mp3_files)) =>
        /\ Positions("list_links") = {}
        /\ Positions("create_link") = {}
        /\ playlist_file = prev.playlist_file
        /\ mp3_files # <<>> =>
              /\ Positions("write_playlist") # {}
              /\ playlist_file.text = CsvRows(playlist)

\* two completed runs on the same two or more files
C2_Witness ==
    /\ pc = "done"
    /\ prev.status = "done"
    /\ prev.files = Range(mp3_files)
    /\ Len(mp3_files) >= 2
    /\ Positions("write_playlist") # {}

\* C3 (as claimed): an error of the remote listing or creation for one file
\* does not end the run.
C3_RemoteErrorDoesNotAbort ==
    pc = "aborted" => abort_cause \notin RemoteOps

\* C4 (as claimed): a file whose metadata cannot be read does not end the
\* run.
C4_MetadataErrorDoesNotAbort ==
    ~(pc = "aborted" /\ abort_cause = "metadata")

\* C5: once a run on a non-empty library has written playlist.csv, the file
\* holds the header and one row per file of the library, the rows in
\* ascending order of the files' paths (so no path twice).
C5_OneRowPerFileInPathOrder ==
    (pc \in {"write_cache", "done"} /\ files # {}) =>
        /\ playlist_file.exists
        /\ playlist_file.text = CsvRows(playlist)
        /\ Len(playlist) = Cardinality(files)
        /\ Len(row_files) = Len(playlist)
        /\ Range(row_files) = files
        /\ \A i, j \in 1..Len(row_files) :
               i < j => LexLess(row_files[i], row_files[j])

\* a completed run over three files, some taken from the directory and some
\* resolved
C5_Witness ==
    /\ pc = "done"
    /\ Len(playlist) = 3
    /\ CachedRows # {}
    /\ ResolvedRows # {}

\* the tags the claim expects for a file with the given metadata: folder
\* segments, album values, trimmed contributor names, empty values dropped
ExpectedTags(mp3_file, audio) ==
    (Range(SplitOn(DirName(RelPath(mp3_file, LOCAL_ROOT_FOLDER)), Sep))
        \cup Range(audio.album)
        \cup UNION {{Strip(x) : x \in Range(SplitOn(a, Comma))} : a \in Range(audio.artist)})
    \ {<<>>}

\* C7 (as claimed): the tags of a newly resolved row are the folder segments,
\* album values and trimmed contributor names of the file, none of them
\* empty and none of them twice.
C7_TagsAreTheUnionWithoutEmpty ==
    \A i \in ResolvedRows :
        LET parts == SplitOn(playlist[i][3], Pipe)
        IN /\ \A k \in 1..Len(parts) : parts[k] # <<>>
           /\ \A k, l \in 1..Len(parts) : k # l => parts[k] # parts[l]
           /\ \E audio \in AudioChoices(row_files[i]) :
                  /\ ~MetadataRaises(audio)
                  /\ Range(parts) = ExpectedTags(row_files[i], audio)

\* C8: every member of the directory file as it was when the run started is
\* a member of the directory file, unchanged and the only one with its key,
\* at every point of the run, whether or not the scan found its file.
C8_CacheEntriesAreKept ==
    \A i \in 1..Len(cache_at_start.text) :
        /\ \E j \in 1..Len(cache_file.text) : cache_file.text[j] = cache_at_start.text[i]
        /\ \A j \in 1..Len(cache_file.text) :
               cache_file.text[j][1] = cache_at_start.text[i][1]
                   => cache_file.text[j] = cache_at_start.text[i]

\* a run that wrote the directory file while it held an entry for a file that
\* is no longer in the library, next to an entry new in this run
C8_Witness ==
    /\ Positions("write_cache") # {}
    /\ KeysOf(cache_at_start) \ files # {}
    /\ KeysOf(cache_file) # KeysOf(cache_at_start)

\* C9: the directory file is read at most once, before anything else, and
\* written at most once, as the last step and only when every scanned file
\* has been through the loop; until then the file is as it was at the start
\* of the run, and it holds no entry for a file resolved in this run.
C9_CacheWrittenOnceAfterTheLoop ==
    /\ Positions("read_cache") \subseteq {1}
    /\ cache_at_start.exists /\ pc # "start" => Positions("read_cache") = {1}
    /\ Cardinality(Positions("write_cache")) <= 1
    /\ \A k \in Positions("write_cache") :
           /\ k = Len(trace)
           /\ Len(row_files) = Len(mp3_files)
           /\ \A f \in Range(mp3_files) :
                  \E j \in 1..(k - 1) : trace[j].op = "cache_lookup" /\ trace[j].file = f
    /\ Positions("write_cache") = {} =>
           /\ cache_file = cache_at_start
           /\ \A i \in ResolvedRows : row_files[i] \notin KeysOf(cache_file)

\* a second run that stopped in the loop after it had resolved a file
C9_Witness ==
    /\ pc = "aborted"
    /\ cache_at_start.exists
    /\ ResolvedRows # {}
    /\ cache_file = cache_at_start

\* C10 (as claimed): the metadata of a file is read before the file is looked
\* up in the directory.
C10_MetadataReadBeforeLookup ==
    \A k \in Positions("cache_lookup") :
        \E j \in 1..(k - 1) :
            trace[j].op = "read_metadata" /\ trace[j].file = trace[k].file

\* the steps of the run that concern a file, in order
FileSteps == SelectSeq(trace, LAMBDA e : e.file # <<>>)

\* C10 (amended): every iteration starts with the lookup in the directory;
\* the lookups follow the scan order; the metadata is read only right after a
\* missed lookup of the same file, the links are listed only right after that
\* read, and a link is created only right after that listing.
C10_LookupThenMetadataThenRemote ==
    LET steps == FileSteps
        Follows(k, op) ==
            k > 1 /\ steps[k - 1].op = op /\ steps[k - 1].file = steps[k].file
    IN \A k \in 1..Len(steps) :
           /\ steps[k].op = "cache_lookup" =>
                 /\ k > 1 => steps[k - 1].file # steps[k].file
                 /\ steps[k].file =
                        mp3_files[Cardinality({j \in 1..k : steps[j].op = "cache_lookup"})]
           /\ steps[k].op = "read_metadata" =>
                 /\ Follows(k, "cache_lookup")
                 /\ steps[k].file \notin DOMAIN loaded
           /\ steps[k].op = "list_links" => Follows(k, "read_metadata")
           /\ steps[k].op = "create_link" => Follows(k, "list_links")
           /\ steps[k].op \in {"cache_lookup", "read_metadata", "list_links", "create_link"}

\* a run that created a link for one file, then went on to a file it found
\* in the directory
C10_Witness ==
    \E k \in Positions("create_link") :
        /\ k + 1 \in Positions("cache_lookup")
        /\ trace[k + 1].file \in DOMAIN loaded

(* ---------------- properties of get_or_create_shared_link ---------------- *)
\* the listed links whose lower-cased path is the lower-cased requested path
Matching == {i \in 1..Len(call.links) :
                Lower(call.links[i].path_lower) = Lower(call.path)}

\* C6: the first request of a call is the listing; a creation is requested
\* only after it and only when no listed link matches the requested path up
\* to case; when listed links match, the call returns the first of them and
\* requests no creation.
C6_ListThenCreateOnlyWithoutMatch ==
    /\ call.requests \in {<<>>, <<"list">>, <<"list", "create">>}
    /\ call.stage \in {"listed", "returned"} => call.requests[1] = "list"
    /\ "create" \in Range(call.requests) => Matching = {}
    /\ (call.stage = "returned" /\ Matching # {}) =>
           /\ call.result = call.links[CHOOSE i \in Matching : \A j \in Matching : i <= j]
           /\ call.requests = <<"list">>
    /\ (call.stage = "returned" /\ Matching = {}) => call.requests = <<"list", "create">>

\* a call for a path with upper-case letters that was answered with two
\* matching links of different urls and returned the first
C6_Witness ==
    /\ call.stage = "returned"
    /\ call.path # Lower(call.path)
    /\ Matching = {1, 2}
    /\ call.links[1].url # call.links[2].url
    /\ call.result = call.links[1]

====
